---------------------------- MODULE Spec2Model ----------------------------
(***************************************************************************)
(* A model of tensorflow/compiler/xla/service/qr_expander.cc.              *)
(*                                                                         *)
(* Three state machines share one variable list:                           *)
(*   SpecExpand : QrExpander::ExpandInstruction with its computation       *)
(*                cache, and QrExpander::BuildQrDecomposition (the block   *)
(*                loop, as the list of panels it hands to QrBlock);        *)
(*   SpecQr     : QrExpander::QrBlock, one action per iteration of         *)
(*                qr_body_fn, with House evaluated in exact rational       *)
(*                arithmetic;                                              *)
(*   SpecWY     : QrExpander::CompactWYRepresentation, one action per      *)
(*                iteration of body_fn, in exact integer arithmetic.       *)
(* The emitted graphs are modelled by the values they compute on one       *)
(* batch element (batch_dims empty): every emitted operation is            *)
(* element-wise in the batch dimensions.                                   *)
(***************************************************************************)
EXTENDS Integers, Sequences, FiniteSets, TLC

VARIABLES
    \* ---- QrExpander (ExpandInstruction) ----
    computation_cache_,  \* name -> computation handle or nullptr
    computations,        \* HloComputations created by DeepCloneComputation
    calls,               \* call instructions added by AddInstruction
    replaced,            \* matched nodes already replaced by their call
    last,                \* outcome of the most recent ExpandInstruction
    failures,            \* number of failed expansions so far
    build,               \* outcome of the most recent BuildQrDecomposition
    \* ---- QrBlock ----
    qr_pc, qr_a, qr_taus, qr_j, qr_hist,
    \* ---- CompactWYRepresentation ----
    wy_pc, wy_vs, wy_taus, wy_t, wy_vtv, wy_j

vars == <<computation_cache_, computations, calls, replaced, last, failures,
          build, qr_pc, qr_a, qr_taus, qr_j, qr_hist,
          wy_pc, wy_vs, wy_taus, wy_t, wy_vtv, wy_j>>

expandVars == <<computation_cache_, computations, calls, replaced, last,
                failures, build>>
qrVars == <<qr_pc, qr_a, qr_taus, qr_j, qr_hist>>
wyVars == <<wy_pc, wy_vs, wy_taus, wy_t, wy_vtv, wy_j>>

Min(x, y) == IF x < y THEN x ELSE y

(***************************************************************************)
(* Bounds of the model.                                                    *)
(***************************************************************************)
\* largest matrix dimension of the shapes handed to BuildQrDecomposition
MaxDim == 4
\* largest block size tried (besides the expander's own 128)
MaxBlock == 3
\* failed expansions followed in one behaviour
MaxFailures == 2

(***************************************************************************)
(*                  ExpandInstruction and the block driver                 *)
(***************************************************************************)
\* the cache's empty entry: computation_cache_.emplace(name, nullptr)
nullptr == 0

\* /*block_size=*/128 in ExpandInstruction
kBlockSize == 128

\* Shapes: element type, dimension sizes and a layout (minor-to-major order).
MakeShape(type, dims, layout) ==
    [element_type |-> type, dimensions |-> dims, layout |-> layout]

Rank(shape) == Len(shape.dimensions)

\* Shape::ToString(): the element type and the dimension sizes, no layout.
ShapeToString(shape) == <<shape.element_type, shape.dimensions>>

\* absl::StrFormat("xla.qr_%s", instruction->operand(0)->shape().ToString())
ComputationName(shape) == <<"xla.qr_", ShapeToString(shape)>>

\* The custom-call nodes "QrDecomposition" present in the host modules.
Instructions ==
    { [id |-> 1, module |-> "m1", shape |-> MakeShape("f32", <<2, 3>>, "{1,0}")],
      [id |-> 2, module |-> "m1", shape |-> MakeShape("f32", <<2, 3>>, "{0,1}")],
      [id |-> 3, module |-> "m2", shape |-> MakeShape("f32", <<2, 3>>, "{1,0}")],
      [id |-> 4, module |-> "m1", shape |-> MakeShape("f32", <<3>>, "{0}")],
      [id |-> 5, module |-> "m2", shape |-> MakeShape("f64", <<2, 3>>, "{1,0}")],
      [id |-> 6, module |-> "m2", shape |-> MakeShape("f32", <<>>, "{}")] }

\* The shapes BuildQrDecomposition is called with directly.
BuildShapes ==
    { MakeShape("f32", <<m, n>>, "{1,0}") : m \in 0..MaxDim, n \in 0..MaxDim }
    \cup { MakeShape("f32", <<>>, "{}"), MakeShape("f32", <<MaxDim>>, "{0}"),
           MakeShape("f32", <<2, MaxDim, 2>>, "{2,1,0}") }

BlockSizes == (0..MaxBlock) \cup {kBlockSize}

\* ShapeUtil::GetDimension(shape, -1 or -2)
GetDimension(shape, back) == shape.dimensions[Len(shape.dimensions) + 1 + back]

\* int64 k = std::min(block_size, p - i);
PanelWidth_Full(block_size, p, i) == block_size
PanelWidth(block_size, p, i) == Min(block_size, p - i)

\* The panel of one iteration of the block loop: a_block has shape
\* [m - i, k]; QrBlock packs its taus in a vector of length min(m - i, k)
\* and CompactWYRepresentation is called with (m - i, k).
Panel(m, i, k) ==
    [i |-> i, k |-> k, rows |-> m - i, taus_len |-> Min(m - i, k)]

\* for (int64 i = 0; i < p; i += block_size)
RECURSIVE BlockLoop(_, _, _, _, _)
BlockLoop(i, p, m, block_size, blocks) ==
    IF i < p
    THEN LET k == PanelWidth(block_size, p, i)
         IN  BlockLoop(i + block_size, p, m, block_size,
                       Append(blocks, Panel(m, i, k)))
    ELSE blocks

RankTooSmall(shape) == Rank(shape) < 2

BuildQrDecomposition(shape, block_size) ==
    IF RankTooSmall(shape)
    THEN [status |-> "InvalidArgument", blocks |-> <<>>]
    ELSE LET m == GetDimension(shape, -2)
             n == GetDimension(shape, -1)
             p == Min(m, n)
         IN  IF block_size < 1
             THEN [status |-> "InvalidArgument", blocks |-> <<>>]
             ELSE [status |-> "OK",
                   blocks |-> BlockLoop(0, p, m, block_size, <<>>)]

\* computation_cache_.emplace(name, nullptr).first->second
Emplace(cache, name) ==
    IF name \in DOMAIN cache THEN cache
    ELSE [k \in DOMAIN cache \cup {name} |->
             IF k = name THEN nullptr ELSE cache[k]]

\* if (!computation)
NeedsBuild_Always(cache, name) == TRUE
NeedsBuild_IfAbsent(cache, name) == name \notin DOMAIN cache
NeedsBuild(cache, name) == Emplace(cache, name)[name] = nullptr

\* TF_ASSIGN_OR_RETURN: a failure status ends the expansion
Propagates_Never(status) == FALSE
Propagates(status) == status # "OK"

NoBuild == [shape |-> MakeShape("none", <<>>, "{}"), block_size |-> 0,
            status |-> "none", blocks |-> <<>>]
NoExpand == [id |-> 0, shape |-> MakeShape("none", <<>>, "{}"), name |-> <<>>,
             present |-> FALSE, found |-> nullptr, built |-> FALSE,
             status |-> "none", calls_before |-> 0, computations_before |-> 0]

InitExpand ==
    /\ computation_cache_ = <<>>
    /\ computations = <<>>
    /\ calls = {}
    /\ replaced = {}
    /\ last = NoExpand
    /\ failures = 0
    /\ build = NoBuild
    /\ qr_pc = "idle" /\ qr_a = <<>> /\ qr_taus = <<>> /\ qr_j = 0
    /\ qr_hist = <<>>
    /\ wy_pc = "idle" /\ wy_vs = <<>> /\ wy_taus = <<>> /\ wy_t = <<>>
    /\ wy_vtv = <<>> /\ wy_j = 0

\* QrExpander::ExpandInstruction(instruction); builder_ok is the outcome of
\* builder.Build / GetProgramShape / HloModule::CreateFromProto.  The pass
\* framework replaces the matched node by the returned call instruction; a
\* failure leaves the node in place, to be matched again.
ExpandInstruction(instruction, builder_ok) ==
    LET name == ComputationName(instruction.shape)
        module == instruction.module
        cache1 == Emplace(computation_cache_, name)
        outcome(status, built) ==
            [id |-> instruction.id, shape |-> instruction.shape,
             name |-> name, present |-> name \in DOMAIN computation_cache_,
             found |-> cache1[name], built |-> built, status |-> status,
             calls_before |-> Cardinality(calls),
             computations_before |-> Len(computations)]
        call(computation) ==
            [site |-> instruction.id, module |-> module, name |-> name,
             computation |-> computation]
    IN
    /\ instruction.id \notin replaced
    /\ UNCHANGED <<qrVars, wyVars>>
    /\ IF NeedsBuild(computation_cache_, name)
       THEN LET l == BuildQrDecomposition(instruction.shape, kBlockSize)
                status == IF l.status # "OK" THEN l.status
                          ELSE IF builder_ok THEN "OK" ELSE "Internal"
            IN  /\ build' = [shape |-> instruction.shape,
                             block_size |-> kBlockSize,
                             status |-> l.status, blocks |-> l.blocks]
                /\ last' = outcome(status, TRUE)
                /\ IF Propagates(status)
                   THEN /\ failures < MaxFailures
                        /\ failures' = failures + 1
                        /\ computation_cache_' = cache1
                        /\ UNCHANGED <<computations, calls, replaced>>
                   ELSE LET computation == Len(computations) + 1
                        IN  /\ computations' =
                                 Append(computations,
                                        [module |-> module, name |-> name])
                            /\ computation_cache_' =
                                 [cache1 EXCEPT ![name] = computation]
                            /\ calls' = calls \cup {call(computation)}
                            /\ replaced' = replaced \cup {instruction.id}
                            /\ UNCHANGED failures
       ELSE /\ computation_cache_' = cache1
            /\ calls' = calls \cup {call(cache1[name])}
            /\ replaced' = replaced \cup {instruction.id}
            /\ last' = outcome("OK", FALSE)
            /\ UNCHANGED <<computations, failures, build>>

Expand == \E instruction \in Instructions, builder_ok \in BOOLEAN :
              ExpandInstruction(instruction, builder_ok)

\* A direct call of BuildQrDecomposition(a, block_size, precision).
BuildCallOn(shapes, sizes) ==
    \E shape \in shapes, block_size \in sizes :
        LET l == BuildQrDecomposition(shape, block_size)
        IN  /\ build' = [shape |-> shape, block_size |-> block_size,
                         status |-> l.status, blocks |-> l.blocks]
            /\ UNCHANGED <<computation_cache_, computations, calls, replaced,
                           last, failures, qrVars, wyVars>>

BuildCall == BuildCallOn(BuildShapes, BlockSizes)

\* Beside the expansions: direct calls on the matched operands' shapes.
DirectBuild ==
    BuildCallOn({ins.shape : ins \in Instructions}, {0, 1, kBlockSize})

NextExpand == Expand \/ DirectBuild

SpecExpand == InitExpand /\ [][NextExpand]_vars

NextBuild == BuildCall

SpecBuild == InitExpand /\ [][NextBuild]_vars

(***************************************************************************)
(*                     Claims on ExpandInstruction                         *)
(***************************************************************************)
Failed(status) == status \notin {"OK", "none"}

\* C1: calls emitted for operands with the same shape signature reference one
\* and the same sub-program; a sub-program is constructed only when the key
\* has none recorded, and at most one is ever constructed per key, the one
\* the cache records.
C1_SharedSubProgram ==
    /\ \A c1 \in calls, c2 \in calls :
          c1.name = c2.name => c1.computation = c2.computation
    /\ \A i \in 1..Len(computations), j \in 1..Len(computations) :
          computations[i].name = computations[j].name => i = j
    /\ last.built => last.found = nullptr
    /\ \A name \in DOMAIN computation_cache_ :
          computation_cache_[name] # nullptr =>
             /\ computation_cache_[name] \in 1..Len(computations)
             /\ computations[computation_cache_[name]].name = name
    /\ \A i \in 1..Len(computations) :
          /\ computations[i].name \in DOMAIN computation_cache_
          /\ computation_cache_[computations[i].name] = i

\* Two nodes of one module whose shapes differ (in layout) and render to the
\* same signature have both been replaced.
C1_Witness ==
    \E c1 \in calls, c2 \in calls :
        /\ c1.site = 1 /\ c2.site = 2
        /\ c1.name = c2.name
        /\ last.id = 2 /\ ~last.built /\ last.found # nullptr

\* C6 (as claimed): the sub-program each call references is owned by the
\* module that holds the call.
C6_CallOwnedByCallersModule ==
    \A c \in calls :
        c.computation \in 1..Len(computations) =>
            computations[c.computation].module = c.module

\* C5: a rank < 2 operand or a block size < 1 makes BuildQrDecomposition fail
\* with InvalidArgument with no block emitted; ExpandInstruction then fails
\* too, adds no call and leaves the matched node in place.
C5_InvalidArgument ==
    /\ (build.status # "none" /\ (Rank(build.shape) < 2 \/ build.block_size < 1))
          => (build.status = "InvalidArgument" /\ build.blocks = <<>>)
    /\ (last.status # "none" /\ Rank(last.shape) < 2)
          => /\ last.status = "InvalidArgument"
             /\ Cardinality(calls) = last.calls_before
             /\ Len(computations) = last.computations_before
             /\ last.id \notin replaced
             /\ \A c \in calls : c.site # last.id

C5_Witness ==
    /\ last.status = "InvalidArgument" /\ Rank(last.shape) < 2
    /\ build.status = "InvalidArgument"
    /\ Rank(build.shape) >= 2 /\ build.block_size < 1

\* C10: every emitted call references a sub-program; a failed construction
\* leaves an empty cache entry and nothing else, and an expansion that finds
\* an empty entry constructs again.
C10_NoCallToEmptyEntry ==
    /\ \A c \in calls : c.computation # nullptr
                        /\ c.computation \in 1..Len(computations)
    /\ Failed(last.status) =>
          /\ last.name \in DOMAIN computation_cache_
          /\ computation_cache_[last.name] = nullptr
          /\ Cardinality(calls) = last.calls_before
          /\ Len(computations) = last.computations_before
    /\ (last.status # "none" /\ last.found = nullptr) => last.built

\* An expansion found the empty entry an earlier failure left, constructed
\* again and emitted its call.
C10_Witness ==
    /\ last.present /\ last.found = nullptr /\ last.built
    /\ last.status = "OK"
    /\ \E c \in calls : c.site = last.id /\ c.computation # nullptr

(***************************************************************************)
(*                     Claims on the block loop                            *)
(***************************************************************************)
CeilDiv(a, b) == (a + b - 1) \div b

\* C9: for a rank >= 2 operand and block size B >= 1 the block loop makes
\* ceil(min(m, n) / B) iterations, whose column ranges [i, i + k) follow one
\* another from 0 to min(m, n); each panel has 1 <= k <= B and k <= m - i, so
\* its packed taus have exactly k entries.
C9_BlockLoop ==
    build.status = "OK" =>
        LET m == GetDimension(build.shape, -2)
            n == GetDimension(build.shape, -1)
            p == Min(m, n)
            B == build.block_size
            blocks == build.blocks
        IN  /\ Len(blocks) = CeilDiv(p, B)
            /\ (Len(blocks) > 0 => blocks[1].i = 0)
            /\ (Len(blocks) > 0 =>
                   blocks[Len(blocks)].i + blocks[Len(blocks)].k = p)
            /\ \A x \in 1..Len(blocks) :
                  /\ 1 <= blocks[x].k /\ blocks[x].k <= B
                  /\ blocks[x].k <= m - blocks[x].i
                  /\ blocks[x].rows = m - blocks[x].i
                  /\ blocks[x].taus_len = blocks[x].k
                  /\ (x < Len(blocks) =>
                         blocks[x + 1].i = blocks[x].i + blocks[x].k)

\* A loop of several blocks whose last panel is narrower than the block size.
C9_Witness ==
    /\ build.status = "OK"
    /\ Len(build.blocks) >= 2
    /\ build.blocks[Len(build.blocks)].k < build.block_size

(***************************************************************************)
(*                Exact arithmetic for the emitted graphs                  *)
(* A value is a fraction [n, d] in lowest terms with d > 0; a division by  *)
(* zero yields NaN (d = 0), which every later operation propagates.        *)
(***************************************************************************)
Abs(x) == IF x < 0 THEN -x ELSE x

RECURSIVE GCD(_, _)
GCD(a, b) == IF b = 0 THEN a ELSE GCD(b, a % b)

NaN == [n |-> 0, d |-> 0]
IsNaN(a) == a.d = 0

Frac(n, d) ==
    LET g == GCD(Abs(n), Abs(d))
    IN  IF d < 0 THEN [n |-> (-n) \div g, d |-> (-d) \div g]
        ELSE [n |-> n \div g, d |-> d \div g]

Num(i) == [n |-> i, d |-> 1]
Zero == Num(0)
One == Num(1)

RAdd(a, b) == IF IsNaN(a) \/ IsNaN(b) THEN NaN
              ELSE Frac(a.n * b.d + b.n * a.d, a.d * b.d)
RNeg(a) == [n |-> -a.n, d |-> a.d]
RSub(a, b) == RAdd(a, RNeg(b))
RMul(a, b) == IF IsNaN(a) \/ IsNaN(b) THEN NaN
              ELSE Frac(a.n * b.n, a.d * b.d)
RDiv(a, b) == IF IsNaN(a) \/ IsNaN(b) \/ b.n = 0 THEN NaN
              ELSE Frac(a.n * b.d, a.d * b.n)
RLt(a, b) == ~IsNaN(a) /\ ~IsNaN(b) /\ a.n * b.d < b.n * a.d

\* Sqrt: the least r in lo..hi with r * r >= x, by bisection
RECURSIVE RootIn(_, _, _)
RootIn(lo, hi, x) ==
    IF lo >= hi THEN lo
    ELSE LET mid == (lo + hi) \div 2
         IN  IF mid * mid >= x THEN RootIn(lo, mid, x)
             ELSE RootIn(mid + 1, hi, x)
\* roots are searched among the integers whose square is a 32-bit integer
Root(x) == RootIn(0, Min(x, 46340), x)
IsSquare(x) == x >= 0 /\ Root(x) * Root(x) = x
\* A fraction in lowest terms has a rational root iff both terms are squares.
HasRoot(a) == ~IsNaN(a) /\ IsSquare(a.n) /\ IsSquare(a.d)
RSqrt(a) == [n |-> Root(a.n), d |-> Root(a.d)]

\* Select(pred, on_true, on_false)
Select(pred, on_true, on_false) == IF pred THEN on_true ELSE on_false

\* ConvertElementType(pred, type)
Convert(pred) == IF pred THEN One ELSE Zero

\* Reduce(..., zero, add) over the indices lo..hi of f
RECURSIVE Reduce(_, _, _)
Reduce(f, lo, hi) == IF lo > hi THEN Zero
                     ELSE RAdd(f[lo], Reduce(f, lo + 1, hi))

Rows(a) == Cardinality(DOMAIN a)
Cols(a) == Cardinality(DOMAIN a[0])

(***************************************************************************)
(*                                 House                                   *)
(***************************************************************************)
\* Select(Lt(alpha, zero), one, -one)
SignFactor_Flipped(alpha) == Select(RLt(alpha, Zero), RNeg(One), One)
SignFactor(alpha) == Select(RLt(alpha, Zero), One, RNeg(One))

\* *tau = Select(sigma_is_zero, Broadcast(zero, batch_dims),
\*               (*beta - alpha) / *beta);
HouseTau_NoSelect(sigma_is_zero, alpha, beta) == RDiv(RSub(beta, alpha), beta)
HouseTau(sigma_is_zero, alpha, beta) ==
    Select(sigma_is_zero, Zero, RDiv(RSub(beta, alpha), beta))

\* mu*mu: Square(alpha) + sigma, for column x and pivot k
SigmaOf(x, k, m) ==
    LET x_after_k == [i \in 0..(m - 1) |-> RMul(x[i], Convert(i > k))]
    IN  Reduce([i \in 0..(m - 1) |-> RMul(x_after_k[i], x_after_k[i])],
               0, m - 1)
MuSquare(x, k, m) == RAdd(RMul(x[k], x[k]), SigmaOf(x, k, m))

\* House(x, k, batch_dims, m, &v, &tau, &beta).  Besides its three outputs
\* the record holds the operands of the two divisions it emits.
House(x, k, m) ==
    LET alpha == x[k]
        x_after_k == [i \in 0..(m - 1) |-> RMul(x[i], Convert(i > k))]
        sigma == Reduce([i \in 0..(m - 1) |->
                            RMul(x_after_k[i], x_after_k[i])], 0, m - 1)
        mu == RSqrt(RAdd(RMul(alpha, alpha), sigma))
        sigma_is_zero == sigma = Zero
        beta == Select(sigma_is_zero, alpha, RMul(SignFactor(alpha), mu))
        tau == HouseTau(sigma_is_zero, alpha, beta)
        divisor == Select(sigma_is_zero, One, RSub(alpha, beta))
        e_k == [i \in 0..(m - 1) |-> Convert(i = k)]
        v == [i \in 0..(m - 1) |-> RAdd(e_k[i], RDiv(x_after_k[i], divisor))]
    IN  [v |-> v, tau |-> tau, beta |-> beta,
         alpha |-> alpha, sigma |-> sigma,
         tau_divisor |-> beta, v_divisor |-> divisor]

(***************************************************************************)
(*                                QrBlock                                  *)
(***************************************************************************)
\* new_x: rows < j keep x, row j is beta, rows > j are v
PredecessorMask_Le(i, j) == Convert(i <= j)
PredecessorMask(i, j) == Convert(i < j)

\* qr_body_fn(j, {a, taus}, builder) on an [m, n] panel
QrBody(j, a, taus, m, n) ==
    LET x == [r \in 0..(m - 1) |-> a[r][j]]
        h == House(x, j, m)
        v == h.v
        \* vva = v_broadcast . Select(Lt(j, iota_mn), a, ZerosLike(a))
        masked == [r \in 0..(m - 1) |-> [c \in 0..(n - 1) |->
                      Select(j < c, a[r][c], Zero)]]
        vva1 == [c \in 0..(n - 1) |->
                    Reduce([r \in 0..(m - 1) |-> RMul(v[r], masked[r][c])],
                           0, m - 1)]
        \* vva = v_broadcast^T . vva
        vva == [r \in 0..(m - 1) |-> [c \in 0..(n - 1) |->
                   RMul(v[r], vva1[c])]]
        a1 == [r \in 0..(m - 1) |-> [c \in 0..(n - 1) |->
                  RSub(a[r][c], RMul(h.tau, vva[r][c]))]]
        new_x == [r \in 0..(m - 1) |->
                     RAdd(RAdd(RMul(x[r], PredecessorMask(r, j)),
                               RMul(h.beta, Convert(r = j))),
                          Select(r > j, v[r], Zero))]
        \* a = Select(Eq(iota_mn, j), new_x, a)
        a2 == [r \in 0..(m - 1) |-> [c \in 0..(n - 1) |->
                  Select(c = j, new_x[r], a1[r][c])]]
        taus_update == [c \in DOMAIN taus |->
                           Select(c = j, RAdd(Zero, h.tau), Zero)]
        taus2 == [c \in DOMAIN taus |-> RAdd(taus[c], taus_update[c])]
    IN  [a |-> a2, taus |-> taus2, house |-> h]

(***************************************************************************)
(* The panels QrBlock is run on.  Square roots are taken exactly: an       *)
(* iteration is followed when the norm it takes is rational.               *)
(***************************************************************************)
\* grid panels have shape [m, n] with m <= MaxRows, n in PanelCols and
\* n <= m (the block driver hands QrBlock k <= m - i columns)
MaxRows == 3
PanelCols == {1, 2}
\* entries of the grid panels
Entries == {-1, 0, 1}

ToPanel(rows) ==
    [r \in 0..(Len(rows) - 1) |-> [c \in 0..(Len(rows[1]) - 1) |->
        Num(rows[r + 1][c + 1])]]

GridPanels ==
    UNION { { [r \in 0..(m - 1) |-> [c \in 0..(n - 1) |-> Num(f[<<r, c>>])]] :
              f \in [(0..(m - 1)) \X (0..(n - 1)) -> Entries] } :
            <<m, n>> \in { d \in (1..MaxRows) \X PanelCols : d[2] <= d[1] } }

\* Panels with larger entries: Pythagorean columns, and the test scenarios.
ScenarioPanels ==
    { ToPanel(<< <<12, -51, 4>>, <<6, 167, -68>>, <<-4, 24, -41>> >>),
      ToPanel(<< <<3, 1>>, <<4, 2>> >>),
      ToPanel(<< <<-3, 1>>, <<4, 2>> >>),
      ToPanel(<< <<-4, 5>>, <<-3, 0>> >>),
      ToPanel(<< <<0, 3>>, <<0, -4>>, <<0, 0>> >>),
      ToPanel(<< <<2, -2, -2>>, <<1, -2, -2>>, <<2, 0, 1>> >>),
      ToPanel(<< <<1, 0, 0>>, <<0, 1, 0>>, <<0, 0, 1>> >>),
      ToPanel(<< <<0, 0, 0>>, <<0, 0, 0>>, <<0, 0, 0>>, <<0, 0, 0>> >>),
      ToPanel(<< <<-1, -3>>, <<1, -2>>, <<-1, 2>>, <<1, 3>> >>) }

ZeroTaus(a) == [c \in 0..(Min(Rows(a), Cols(a)) - 1) |-> Zero]

\* The norm taken by House at pivot j of panel a is rational.
ExactNorm(a, j) ==
    HasRoot(MuSquare([r \in 0..(Rows(a) - 1) |-> a[r][j]], j, Rows(a)))

InitQr ==
    /\ qr_pc = "call"
    /\ qr_a \in GridPanels \cup ScenarioPanels
    /\ qr_taus = <<>>
    /\ qr_j = 0
    /\ qr_hist = <<>>
    /\ computation_cache_ = <<>> /\ computations = <<>> /\ calls = {}
    /\ replaced = {} /\ last = NoExpand /\ failures = 0 /\ build = NoBuild
    /\ wy_pc = "idle" /\ wy_vs = <<>> /\ wy_taus = <<>> /\ wy_t = <<>>
    /\ wy_vtv = <<>> /\ wy_j = 0

\* auto taus = Zeros(builder, [min(m, n)]);  ForEachIndex(min(m, n), ...)
QrBlockEnter ==
    /\ qr_pc = "call"
    /\ qr_pc' = "loop"
    /\ qr_taus' = ZeroTaus(qr_a)
    /\ UNCHANGED <<qr_a, qr_j, qr_hist, expandVars, wyVars>>

\* one iteration of the ForEachIndex loop "qr"
QrBlockIteration ==
    /\ qr_pc = "loop"
    /\ qr_j < Min(Rows(qr_a), Cols(qr_a))
    /\ ExactNorm(qr_a, qr_j)
    /\ \E next \in {QrBody(qr_j, qr_a, qr_taus, Rows(qr_a), Cols(qr_a))} :
           /\ qr_a' = next.a
           /\ qr_taus' = next.taus
           /\ qr_hist' = Append(qr_hist, [j |-> qr_j, before |-> qr_a,
                                          after |-> next.a,
                                          house |-> next.house])
    /\ qr_j' = qr_j + 1
    /\ UNCHANGED <<qr_pc, expandVars, wyVars>>

\* result.a = values[0]; result.taus = values[1];
QrBlockReturn ==
    /\ qr_pc = "loop"
    /\ qr_j >= Min(Rows(qr_a), Cols(qr_a))
    /\ qr_pc' = "done"
    /\ UNCHANGED <<qr_a, qr_taus, qr_j, qr_hist, expandVars, wyVars>>

NextQr == QrBlockEnter \/ QrBlockIteration \/ QrBlockReturn

SpecQr == InitQr /\ [][NextQr]_vars

(***************************************************************************)
(*                  Claims on House and the panel loop                     *)
(***************************************************************************)
Steps == 1..Len(qr_hist)
IsZeroTail(h) == h.house.sigma = Zero

\* C3 (as claimed): the diagonal value beta written at pivot j has the sign
\* opposite to alpha = x[j], except that it is 0 when alpha = 0 and the tail
\* below j is zero.
C3_SignOpposite ==
    \A s \in Steps :
        LET h == qr_hist[s].house
        IN  /\ qr_hist[s].after[qr_hist[s].j][qr_hist[s].j] = h.beta
            /\ IF h.alpha = Zero /\ h.sigma = Zero
               THEN h.beta = Zero
               ELSE /\ RLt(Zero, h.alpha) => RLt(h.beta, Zero)
                    /\ RLt(h.alpha, Zero) => RLt(Zero, h.beta)

\* C3 (amended): the diagonal value beta written at pivot j has the sign
\* opposite to alpha (negative for alpha >= 0, positive for alpha < 0)
\* whenever the tail below j is not all zero; when the tail is all zero it
\* is alpha itself.
C3_SignOppositeUnlessZeroTail ==
    \A s \in Steps :
        LET h == qr_hist[s].house
        IN  /\ qr_hist[s].after[qr_hist[s].j][qr_hist[s].j] = h.beta
            /\ IF h.sigma = Zero
               THEN h.beta = h.alpha
               ELSE /\ ~RLt(h.alpha, Zero) => RLt(h.beta, Zero)
                    /\ RLt(h.alpha, Zero) => RLt(Zero, h.beta)

\* One panel with a pivot of negative alpha over a nonzero tail and a pivot
\* of nonzero alpha over a zero tail.
C3_Witness ==
    \E s1 \in Steps, s2 \in Steps :
        /\ RLt(qr_hist[s1].house.alpha, Zero)
        /\ qr_hist[s1].house.sigma # Zero
        /\ RLt(Zero, qr_hist[s1].house.beta)
        /\ qr_hist[s2].house.sigma = Zero
        /\ qr_hist[s2].house.alpha # Zero

\* C4: on a zero tail (sigma = 0) House returns beta = alpha, tau = 0 and
\* v = e_k, whatever alpha is, and the panel iteration leaves the work
\* tensor, its diagonal entry included, as it was.
C4_ZeroTailIsIdentity ==
    \A s \in Steps :
        LET h == qr_hist[s].house
            j == qr_hist[s].j
            m == Rows(qr_hist[s].before)
        IN  IsZeroTail(qr_hist[s]) =>
               /\ h.beta = h.alpha
               /\ h.tau = Zero
               /\ h.v = [i \in 0..(m - 1) |-> IF i = j THEN One ELSE Zero]
               /\ qr_hist[s].after[j][j] = qr_hist[s].before[j][j]
               /\ qr_hist[s].after = qr_hist[s].before
               /\ qr_taus[j] = Zero

\* A panel with a zero-tail pivot of nonzero alpha and one of alpha = 0.
C4_Witness ==
    \E s1 \in Steps, s2 \in Steps :
        /\ IsZeroTail(qr_hist[s1]) /\ qr_hist[s1].house.alpha # Zero
        /\ IsZeroTail(qr_hist[s2]) /\ qr_hist[s2].house.alpha = Zero
        /\ Rows(qr_a) > qr_hist[s2].j + 1

\* C7: iteration j leaves the columns < j as they were and rewrites column
\* j: rows < j keep their values, row j holds beta, rows > j hold v; every
\* processed column holds, from then on, what its iteration wrote.
C7_PanelLoopFrame ==
    \A s \in Steps :
        LET j == qr_hist[s].j
            before == qr_hist[s].before
            after == qr_hist[s].after
            h == qr_hist[s].house
            m == Rows(before)
        IN  /\ j = s - 1
            /\ \A r \in 0..(m - 1) :
                  /\ \A c \in 0..(j - 1) : after[r][c] = before[r][c]
                  /\ r < j => after[r][j] = before[r][j]
                  /\ r = j => after[r][j] = h.beta
                  /\ r > j => after[r][j] = h.v[r]
                  /\ qr_a[r][j] = after[r][j]

\* The loop has ended after two iterations or more that each reflected.
C7_Witness ==
    /\ qr_pc = "done"
    /\ \E s \in Steps :
          /\ s >= 2
          /\ qr_hist[s].house.tau # Zero
          /\ qr_hist[1].house.tau # Zero
          /\ qr_hist[s].j + 1 < Cols(qr_a)

\* C8 (as claimed): neither division emitted by House, the one forming v
\* nor the one forming tau, has a zero divisor.
C8_NoZeroDivisor ==
    \A s \in Steps :
        /\ qr_hist[s].house.v_divisor # Zero
        /\ qr_hist[s].house.tau_divisor # Zero

(***************************************************************************)
(*                      CompactWYRepresentation                            *)
(***************************************************************************)
\* Matrices are indexed from 0: a[row][col].
Matrix(rows, cols, f(_, _)) ==
    [r \in 0..(rows - 1) |-> [c \in 0..(cols - 1) |-> f(r, c)]]

\* IdentityMatrix(builder, type, m, n)
IdentityMatrix(m, n) == Matrix(m, n, LAMBDA r, c : Convert(r = c))

\* TriangleMask(x, diagonal): true on and below the diagonal-th diagonal
TriangleMask(r, c, diagonal) == r >= c - diagonal

\* BatchDot(x, y): x is [m, k], y is [k, n]
BatchDot(x, y, m, k, n) ==
    Matrix(m, n, LAMBDA r, c :
        Reduce([i \in 0..(k - 1) |-> RMul(x[r][i], y[i][c])], 0, k - 1))

Transpose(x, m, n) == Matrix(n, m, LAMBDA r, c : x[c][r])

\* tau_scale = BroadcastInDim(-taus, [1, n], {n_index})
TauScale_Plus(taus, c) == taus[c]
TauScale(taus, c) == RNeg(taus[c])

\* vtv = vs^T vs; vtv = Select(TriangleMask(vtv, 0), 0, vtv);
\* vtv = (vtv + eye) * tau_scale
InitialVtv(vs, taus, m, n) ==
    LET eye == IdentityMatrix(n, n)
        vtv0 == BatchDot(Transpose(vs, m, n), vs, n, m, n)
        vtv1 == Matrix(n, n, LAMBDA r, c :
                    Select(TriangleMask(r, c, 0), Zero, vtv0[r][c]))
    IN  Matrix(n, n, LAMBDA r, c :
            RMul(RAdd(vtv1[r][c], eye[r][c]), TauScale(taus, c)))

\* body_fn(j, {t, vtv}, builder)
WYBody(j, t, vtv, n) ==
    LET yv == Matrix(n, 1, LAMBDA r, c : vtv[r][j])
        z == BatchDot(t, yv, n, n, 1)
    IN  \* DynamicUpdateSliceInMinorDims(t, z, {j})
        Matrix(n, n, LAMBDA r, c : IF c = j THEN z[r][0] ELSE t[r][c])

\* Reflector panels: unit diagonal, zero above it, YEntries below it.
YEntries == {-1, 0, 1}
\* shapes [m, k] of the reflector panels, k <= m
WYShapes == { <<1, 1>>, <<2, 1>>, <<2, 2>>, <<3, 1>>, <<3, 2>>, <<3, 3>> }
\* the taus are drawn from 0..MaxTau
MaxTau == 2
TauEntries == 0..MaxTau

ReflectorPanels ==
    UNION { { Matrix(d[1], d[2], LAMBDA r, c :
                  IF r = c THEN One
                  ELSE IF r < c THEN Zero ELSE Num(f[<<r, c>>])) :
              f \in [ { rc \in (0..(d[1] - 1)) \X (0..(d[2] - 1)) :
                            rc[1] > rc[2] } -> YEntries ] } :
            d \in WYShapes }

InitWY ==
    /\ wy_pc = "call"
    /\ wy_vs \in ReflectorPanels
    /\ wy_taus \in { [c \in 0..(Cols(wy_vs) - 1) |-> Num(f[c])] :
                       f \in [0..(Cols(wy_vs) - 1) -> TauEntries] }
    /\ wy_t = <<>>
    /\ wy_vtv = <<>>
    /\ wy_j = 0
    /\ computation_cache_ = <<>> /\ computations = <<>> /\ calls = {}
    /\ replaced = {} /\ last = NoExpand /\ failures = 0 /\ build = NoBuild
    /\ qr_pc = "idle" /\ qr_a = <<>> /\ qr_taus = <<>> /\ qr_j = 0
    /\ qr_hist = <<>>

\* t = eye; vtv = ...; ForEachIndex(n, S32, body_fn, {t, vtv}, "wy", builder)
WYEnter ==
    /\ wy_pc = "call"
    /\ wy_pc' = "loop"
    /\ wy_t' = IdentityMatrix(Cols(wy_vs), Cols(wy_vs))
    /\ wy_vtv' = InitialVtv(wy_vs, wy_taus, Rows(wy_vs), Cols(wy_vs))
    /\ UNCHANGED <<wy_vs, wy_taus, wy_j, expandVars, qrVars>>

\* one iteration of the ForEachIndex loop "wy"
WYIteration ==
    /\ wy_pc = "loop"
    /\ wy_j < Cols(wy_vs)
    /\ wy_t' = WYBody(wy_j, wy_t, wy_vtv, Cols(wy_vs))
    /\ wy_j' = wy_j + 1
    /\ UNCHANGED <<wy_pc, wy_vs, wy_taus, wy_vtv, expandVars, qrVars>>

\* return values[0];
WYReturn ==
    /\ wy_pc = "loop"
    /\ wy_j >= Cols(wy_vs)
    /\ wy_pc' = "done"
    /\ UNCHANGED <<wy_vs, wy_taus, wy_t, wy_vtv, wy_j, expandVars, qrVars>>

NextWY == WYEnter \/ WYIteration \/ WYReturn

SpecWY == InitWY /\ [][NextWY]_vars

(***************************************************************************)
(*                 Claims on CompactWYRepresentation                       *)
(***************************************************************************)
\* H_j = I - tau_j y_j y_j^T, y_j the column j of Y
Reflector(Y, taus, j, m) ==
    Matrix(m, m, LAMBDA r, c :
        RSub(Convert(r = c), RMul(taus[j], RMul(Y[r][j], Y[c][j]))))

\* H_j H_(j+1) ... H_(k-1)
RECURSIVE ReflectorProduct(_, _, _, _, _)
ReflectorProduct(Y, taus, j, k, m) ==
    IF j >= k THEN IdentityMatrix(m, m)
    ELSE BatchDot(Reflector(Y, taus, j, m),
                  ReflectorProduct(Y, taus, j + 1, k, m), m, m, m)

\* Y T Y^T
YTYt(Y, T, m, k) ==
    BatchDot(BatchDot(Y, T, m, k, k), Transpose(Y, m, k), m, k, m)

=============================================================================
